---- MODULE Spec2Model ----
(***************************************************************************)
(* Model of the ranking-page pipeline of malody_api/routers/page_parser.py *)
(*                                                                         *)
(*   - the module-level state crawler_cooldown and MOD_MAPPING,            *)
(*   - the routes GET /page-parser/chart/{cid} and                         *)
(*     GET /page-parser/chart/{cid}/ranking,                               *)
(*   - PageParserService.parse_chart_page and the decoders it drives.      *)
(*                                                                         *)
(* Strings the decoders take apart (the title attribute of a list item)    *)
(* are sequences of one-character strings.  A class name is a token        *)
(* <<prefix, n>> standing for the text prefix followed by the decimal n;   *)
(* a string made of class names is the sequence of its space-separated     *)
(* tokens.  Time is counted in minutes.                                    *)
(***************************************************************************)
EXTENDS Integers, Sequences, FiniteSets, TLC

VARIABLES
    now,               \* datetime.now(), in minutes
    crawler_cooldown,  \* module dict: cid -> time of the last recorded parse
    mapping_file,      \* mod_mapping.json as found at import time
    MOD_MAPPING,       \* module dict: modifier code -> modifier name
    pc,                \* per request slot: "idle", "fetching", "done"
    req,               \* per request slot: the call being served
    resp,              \* per request slot: the response of a finished call
    session,           \* per request slot: the service's aiohttp session
    lastCall,          \* history of the one-after-the-other runs: the last finished chart call
    page,              \* decoder runs: the markup handed to the extractor
    result             \* decoder runs: what parse_chart_page returned

vars == <<now, crawler_cooldown, mapping_file, MOD_MAPPING, pc, req, resp,
          session, lastCall, page, result>>

routeVars == <<now, crawler_cooldown, pc, req, resp, session, lastCall>>

(***************************************************************************)
(* Bounds                                                                  *)
(***************************************************************************)
MaxTitleLen == 5      \* longest title attribute explored alone
MaxItems    == 3      \* most list items on a page
MaxIcons    == 3      \* most <i> elements in the modifier span
MaxTime     == 6      \* the clock stops here
NumReqs     == 2      \* requests that can be in flight together

(***************************************************************************)
(* Program constants                                                       *)
(***************************************************************************)
CooldownMinutes == 5  \* timedelta(minutes=5)
PlaceholderMods == 20 \* range(20)
MaxFetchTicks   == 1  \* ClientTimeout(total=30): a fetch crosses at most one minute boundary

Reqs == 1..NumReqs
\* the chart ids requested: the one a call is about and another one
Cids == {1, 2}

(***************************************************************************)
(* Text of a title attribute                                               *)
(***************************************************************************)
Alphabet == {"0", "3", "a", "-", "/"}
DigitChars == {"0", "3"}

DigitVal(ch) == IF ch = "3" THEN 3 ELSE 0

StrsOver(A, n) == UNION {[1..k -> A] : k \in 0..n}

\* str.split('/'): the segments between the separators, empty ones included
RECURSIVE SplitFrom(_, _, _, _)
SplitFrom(s, i, cur, acc) ==
    IF i > Len(s) THEN Append(acc, cur)
    ELSE IF s[i] = "/" THEN SplitFrom(s, i + 1, <<>>, Append(acc, cur))
    ELSE SplitFrom(s, i + 1, Append(cur, s[i]), acc)

split(s) == SplitFrom(s, 1, <<>>, <<>>)

\* the digits of an int() literal once the sign is taken off
IntBody(s) == IF Len(s) > 0 /\ s[1] = "-" THEN Tail(s) ELSE s

\* int(s) returns a value (otherwise it raises ValueError)
IntParses(s) ==
    /\ Len(IntBody(s)) > 0
    /\ \A i \in 1..Len(IntBody(s)) : IntBody(s)[i] \in DigitChars

RECURSIVE DecimalValue(_)
DecimalValue(d) ==
    IF Len(d) = 0 THEN 0
    ELSE 10 * DecimalValue(SubSeq(d, 1, Len(d) - 1)) + DigitVal(d[Len(d)])

\* int(s) for a literal that parses
int(s) == IF Len(s) > 0 /\ s[1] = "-" THEN 0 - DecimalValue(IntBody(s))
          ELSE DecimalValue(s)

(***************************************************************************)
(* Class names and modifier codes                                          *)
(***************************************************************************)
Tok(prefix, n) == <<prefix, n>>

GMod(i) == Tok("g_mod_", i)        \* the class g_mod_<i>
GModBare == Tok("g_mod", 0)        \* the class g_mod
PlainIcon == Tok("fa", 0)          \* a class without g_mod in it
ModName(i) == Tok("mod_", i)       \* the placeholder name mod_<i>

\* re.compile('g_mod') finds a match in the class name
MatchesGMod(tok) == tok[1] \in {"g_mod_", "g_mod"}

\* the class lists of the <i> elements explored
IconSamples == {<<GMod(0)>>, <<GMod(19)>>, <<GMod(20)>>, <<PlainIcon>>,
                <<GModBare, GMod(0)>>}

\* mod_mapping.json: missing or unreadable, or a JSON object
FileAbsent == [readable |-> FALSE, content |-> <<>>]
FileSample == [readable |-> TRUE,
               content |-> <<  <<  <<GMod(0)>>,  <<Tok("Luck", 0)>>  >>,
                              <<  <<GMod(20)>>, <<Tok("Flip", 0)>>  >>  >>]
MappingFiles == {FileAbsent, FileSample}

\* a dict built from a sequence of <<key, value>> pairs
DictOf(pairs) ==
    [k \in {pairs[i][1] : i \in 1..Len(pairs)} |->
        (CHOOSE i \in 1..Len(pairs) : pairs[i][1] = k /\
            \A j \in (i + 1)..Len(pairs) : pairs[j][1] # k) ]

PlaceholderMapping ==
    [k \in {<<GMod(i)>> : i \in 0..(PlaceholderMods - 1)} |-> <<ModName(k[1][2])>>]

\* variant: the except branch leaves the empty dict in place
LoadModMappingEmpty(file) ==
    IF file.readable
    THEN LET d == DictOf(file.content)
         IN [k \in DOMAIN d |-> file.content[d[k]][2]]
    ELSE <<>>

\* the module-level try/except that sets MOD_MAPPING at import
LoadModMapping(file) ==
    IF file.readable
    THEN LET d == DictOf(file.content)
         IN [k \in DOMAIN d |-> file.content[d[k]][2]]
    ELSE PlaceholderMapping

(***************************************************************************)
(* Markup                                                                  *)
(***************************************************************************)
\* a <span>: its class and the class lists of the <i> elements inside it
Span(cls, icons) == [cls |-> cls, icons |-> icons]

\* the modifier spans explored
ModSpans == {Span("mod", icons) : icons \in UNION {[1..k -> IconSamples] : k \in 0..MaxIcons}}

\* a span of another class with a g_mod icon in it, and a second modifier span
TimeSpan == Span("time", << <<GMod(0)>> >>)
SecondModSpan == Span("mod", << <<GMod(20)>> >>)

\* the spans of a list item: none, the modifier span alone, the modifier span
\* after a span of another class, or before a second modifier span
SpanSeqs ==
    {<<>>} \cup {<<m>> : m \in ModSpans} \cup {<<TimeSpan, m>> : m \in ModSpans}
    \cup {<<m, SecondModSpan>> : m \in ModSpans}

Item(hasTitle, title, spans) ==
    [has_title |-> hasTitle, title |-> title, spans |-> spans]

\* a page: the song_title block, the selected judge option, the <ul class="list">
Page(songTitle, judge, hasList, items) ==
    [song_title |-> songTitle, judge |-> judge, has_list |-> hasList, items |-> items]

(***************************************************************************)
(* Field decoders                                                          *)
(***************************************************************************)
\* item.get('title', '')
TitleAttr(item) == IF item.has_title THEN item.title ELSE <<>>

\* the k-th segment is there and not empty, so int() is applied to it
SlotUsed(parts, k) == Len(parts) >= k /\ parts[k] # <<>>

\* int(parts[k-1]) if ... else 0, for a segment on which int() does not raise
SlotValue(parts, k) == IF SlotUsed(parts, k) THEN int(parts[k]) ELSE 0

ZeroStats == [raised |-> FALSE, perfect |-> 0, good |-> 0, miss |-> 0, unknown |-> 0]
RaisedStats == [raised |-> TRUE, perfect |-> 0, good |-> 0, miss |-> 0, unknown |-> 0]

_parse_hit_stats(item) ==
    LET title == TitleAttr(item)
        parts == split(title)
    IN IF title = <<>> \/ ~(\E i \in 1..Len(title) : title[i] = "/")
       THEN ZeroStats
       ELSE IF \E k \in 1..4 : SlotUsed(parts, k) /\ ~IntParses(parts[k])
       THEN RaisedStats
       ELSE [raised |-> FALSE,
             perfect |-> SlotValue(parts, 1),
             good |-> SlotValue(parts, 2),
             miss |-> SlotValue(parts, 3),
             unknown |-> SlotValue(parts, 4)]

\* item.find('span', class_='mod'): the first such span, or none
FirstModSpan(item) ==
    LET idx == {i \in 1..Len(item.spans) : item.spans[i].cls = "mod"}
    IN IF idx = {} THEN <<>>
       ELSE <<item.spans[CHOOSE i \in idx : \A j \in idx : i <= j]>>

\* mod_span.find_all('i', class_=re.compile('g_mod')), in document order
RECURSIVE FindGModIcons(_)
FindGModIcons(icons) ==
    IF Len(icons) = 0 THEN <<>>
    ELSE LET rest == FindGModIcons(Tail(icons))
         IN IF \E i \in 1..Len(Head(icons)) : MatchesGMod(Head(icons)[i])
            THEN <<Head(icons)>> \o rest
            ELSE rest

\* MOD_MAPPING.get(mod_class, mod_class), mod_class being ' '.join(classes)
ResolveMod(mapping, mod_class) ==
    IF mod_class \in DOMAIN mapping THEN mapping[mod_class] ELSE mod_class

\* variant: an icon whose code is not a key of the mapping is skipped
RECURSIVE ModsLoopSkipUnmapped(_, _, _)
ModsLoopSkipUnmapped(mapping, icons, mods) ==
    IF Len(icons) = 0 THEN mods
    ELSE ModsLoopSkipUnmapped(mapping, Tail(icons),
            IF Head(icons) \in DOMAIN mapping
            THEN Append(mods, mapping[Head(icons)]) ELSE mods)

RECURSIVE ModsLoop(_, _, _)
ModsLoop(mapping, icons, mods) ==
    IF Len(icons) = 0 THEN mods
    ELSE ModsLoop(mapping, Tail(icons), Append(mods, ResolveMod(mapping, Head(icons))))

_parse_mods(mapping, item) ==
    IF FirstModSpan(item) = <<>> THEN <<>>
    ELSE ModsLoop(mapping, FindGModIcons(FirstModSpan(item)[1].icons), <<>>)

(***************************************************************************)
(* Entry assembler and page extractor                                      *)
(***************************************************************************)
\* the entry, or <<>> for the None returned when a decoder raised
_parse_ranking_item(mapping, item, judge) ==
    LET mods == _parse_mods(mapping, item)
        hit_stats == _parse_hit_stats(item)
    IN IF hit_stats.raised THEN <<>>
       ELSE << [mods |-> mods, judge |-> judge,
                hit_stats |-> [perfect |-> hit_stats.perfect, good |-> hit_stats.good,
                               miss |-> hit_stats.miss, unknown |-> hit_stats.unknown]] >>

_get_current_judge(pg) == IF pg.judge = <<>> THEN "All" ELSE pg.judge[1]

\* variant: the first item whose decoding raises ends the loop
RECURSIVE RankingLoopAbort(_, _, _, _)
RankingLoopAbort(mapping, items, judge, rankings) ==
    IF Len(items) = 0 THEN rankings
    ELSE IF _parse_ranking_item(mapping, Head(items), judge) = <<>> THEN rankings
    ELSE RankingLoopAbort(mapping, Tail(items), judge,
                          rankings \o _parse_ranking_item(mapping, Head(items), judge))

RECURSIVE RankingLoop(_, _, _, _)
RankingLoop(mapping, items, judge, rankings) ==
    IF Len(items) = 0 THEN rankings
    ELSE RankingLoop(mapping, Tail(items), judge,
                     rankings \o _parse_ranking_item(mapping, Head(items), judge))

_parse_ranking_data(mapping, pg) ==
    IF ~pg.has_list THEN <<>>
    ELSE RankingLoop(mapping, pg.items, _get_current_judge(pg), <<>>)

_parse_basic_chart_info(pg, cid) ==
    IF ~pg.song_title THEN [cid |-> cid, error |-> TRUE]
    ELSE [cid |-> cid, error |-> FALSE]

NoError == <<"", 0, 0>>

\* variant: total_rankings counts the <li> elements of the list
_parse_chart_html_count_items(mapping, pg, cid, t) ==
    LET ranking_data == _parse_ranking_data(mapping, pg)
    IN [is_error |-> FALSE, error |-> NoError,
        chart_info |-> <<_parse_basic_chart_info(pg, cid)>>,
        ranking |-> ranking_data,
        parsed_at |-> t,
        total_rankings |-> Len(pg.items)]

_parse_chart_html(mapping, pg, cid, t) ==
    LET ranking_data == _parse_ranking_data(mapping, pg)
    IN [is_error |-> FALSE, error |-> NoError,
        chart_info |-> <<_parse_basic_chart_info(pg, cid)>>,
        ranking |-> ranking_data,
        parsed_at |-> t,
        total_rankings |-> Len(ranking_data)]

\* the dict {"error": ...}
ErrorResult(e) ==
    [is_error |-> TRUE, error |-> e, chart_info |-> <<>>, ranking |-> <<>>,
     parsed_at |-> 0, total_rankings |-> 0]

(***************************************************************************)
(* PageParserService.parse_chart_page                                      *)
(***************************************************************************)
EmptyBody == Page(FALSE, <<>>, FALSE, <<>>)

\* what session.get(url) and response.text() come back with
Origin(net, status, textOk, body) ==
    [net |-> net, status |-> status, text_ok |-> textOk, body |-> body]

\* the value returned: {"error": ...} or the parsed page
PageParserService_parse_chart_page(mapping, cid, origin, t) ==
    IF origin.net = "client_error" THEN ErrorResult(<<"network_error", 0, 0>>)
    ELSE IF origin.net = "timeout" THEN ErrorResult(<<"parse_failed", 0, 0>>)
    ELSE IF origin.status = 404 THEN ErrorResult(<<"chart_not_found", cid, 0>>)
    ELSE IF origin.status # 200 THEN ErrorResult(<<"fetch_failed", origin.status, 0>>)
    ELSE IF ~origin.text_ok THEN ErrorResult(<<"parse_failed", 0, 0>>)
    ELSE _parse_chart_html(mapping, origin.body, cid, t)

(***************************************************************************)
(* Decoder runs: one page is handed to the service as the body of a 200    *)
(***************************************************************************)
\* the chart id of the decoder runs: the smallest one
ParseCid == CHOOSE c \in Cids : \A d \in Cids : c <= d

TitlePages ==
    {Page(TRUE, <<>>, TRUE, <<Item(TRUE, t, <<>>)>>) : t \in StrsOver(Alphabet, MaxTitleLen)}
    \cup {Page(TRUE, <<>>, TRUE, <<Item(FALSE, <<>>, <<>>)>>)}

ModPages == {Page(TRUE, <<>>, TRUE, <<Item(FALSE, <<>>, sp)>>) : sp \in SpanSeqs}

\* the list items of the pages of several items: no title attribute, a title
\* of numbers, one with a segment that is no number, one with a minus sign
PageItems ==
    {Item(FALSE, <<>>, <<>>),
     Item(TRUE, <<"3", "/", "0">>, <<>>),
     Item(TRUE, <<"3", "/", "a">>, <<>>),
     Item(TRUE, <<"/", "-", "3">>, <<>>)}

ListPages ==
    {Page(st, j, TRUE, items) :
        st \in BOOLEAN, j \in {<<>>, <<"Easy">>},
        items \in UNION {[1..k -> PageItems] : k \in 0..MaxItems}}
    \cup {Page(st, j, FALSE, <<>>) : st \in BOOLEAN, j \in {<<>>, <<"Easy">>}}

ParsePages == TitlePages \cup ModPages \cup ListPages
(***************************************************************************)
(* The routes                                                              *)
(***************************************************************************)
None == <<>>
Some(x) == <<x>>

NoReq == [route |-> "none", cid |-> 0, current_time |-> 0, origin |-> "none"]
NoResp == [kind |-> "none", http |-> 0, success |-> FALSE, error |-> NoError,
           data |-> None, timestamp |-> 0]

\* the minutes written in the text of the cooldown message
MessageMinutes == 5

\* variant: the message states the minutes left in the window
ThrottledResponseRemaining(cid, current_time, last_update) ==
    [kind |-> "throttled", http |-> 200, success |-> FALSE,
     error |-> <<"recently_parsed", cid, CooldownMinutes - (current_time - last_update)>>,
     data |-> None, timestamp |-> current_time]

\* APIResponse(success=False, error="CID {cid} ... 5 ...", timestamp=current_time)
ThrottledResponse(cid, current_time, last_update) ==
    [kind |-> "throttled", http |-> 200, success |-> FALSE,
     error |-> <<"recently_parsed", cid, MessageMinutes>>,
     data |-> None, timestamp |-> current_time]

\* raise HTTPException(status_code=404, detail=result["error"])
ErrorResponse(res) ==
    [kind |-> "http_exception", http |-> 404, success |-> FALSE,
     error |-> res.error, data |-> None, timestamp |-> 0]

\* APIResponse(success=True, data=result, ..., timestamp=current_time)
SuccessResponse(res, t) ==
    [kind |-> "success", http |-> 200, success |-> TRUE, error |-> NoError,
     data |-> Some(res), timestamp |-> t]

\* the data of /chart/{cid}/ranking: ranking, total_rankings and parsed_at only
RankingOnly(res) == [res EXCEPT !.chart_info = None]

\* variant: the window's last instant counts as inside it
InCooldownInclusive(cooldown, cid, current_time) ==
    /\ cid \in DOMAIN cooldown
    /\ current_time - cooldown[cid] <= CooldownMinutes

\* current_time - last_update < timedelta(minutes=5), for a cid in the dict
InCooldown(cooldown, cid, current_time) ==
    /\ cid \in DOMAIN cooldown
    /\ current_time - cooldown[cid] < CooldownMinutes

\* crawler_cooldown[cid] = current_time
Record(cooldown, cid, t) ==
    [c \in DOMAIN cooldown \cup {cid} |-> IF c = cid THEN t ELSE cooldown[c]]

\* variant: only the not-found answer of the origin keeps the ledger as it is
RecordsUnlessNotFound(res) == ~res.is_error \/ res.error[1] # "chart_not_found"

\* variant: the dict is written whatever the service returned
RecordsAlways(res) == TRUE

\* whether the route writes the dict after the service returned res
RecordsAfter(res) == ~res.is_error

\* the bodies the origin serves in the route runs
NoListBody == Page(FALSE, <<>>, FALSE, <<>>)
TwoItemBody ==
    Page(TRUE, <<"Easy">>, TRUE,
         << Item(TRUE, <<"3", "/", "0">>, << Span("mod", << <<GMod(0)>> >>) >>),
            Item(TRUE, <<"3", "/", "a">>, <<>>) >>)
SampleBodies == {NoListBody, TwoItemBody}

Origins ==
    {Origin("response", 200, TRUE, b) : b \in SampleBodies}
    \cup {Origin("response", 200, FALSE, EmptyBody),
          Origin("response", 404, TRUE, EmptyBody),
          Origin("response", 500, TRUE, EmptyBody),
          Origin("client_error", 0, TRUE, EmptyBody),
          Origin("timeout", 0, TRUE, EmptyBody)}

OriginLabel(o) ==
    IF o.net # "response" THEN o.net
    ELSE IF o.status = 404 THEN "404"
    ELSE IF o.status # 200 THEN "other_status"
    ELSE IF o.text_ok THEN "page" ELSE "bad_page"

\* a finished response goes to the client before the event loop runs the next
\* handler step: no slot holds an unsent response
AllSent == \A q \in Reqs : pc[q] # "done"

\* a minute passes; a pending fetch lasts at most the session's total timeout
Tick ==
    /\ now < MaxTime
    /\ AllSent
    /\ \A r \in Reqs : pc[r] = "fetching" => now - req[r].current_time < MaxFetchTicks
    /\ now' = now + 1
    /\ UNCHANGED <<crawler_cooldown, mapping_file, MOD_MAPPING, pc, req, resp, session,
                   page, result>>

\* PageParserService.get_session: the session is created when there is none
get_session(s) == IF s = "none" THEN "open" ELSE s

\* PageParserService.close_session: an open session is closed and forgotten
close_session(s) == "none"

\* variant: the session is closed at the end of the try block only, so the
\* paths that leave it through an exception keep the session
SessionAtExitNoFinally(s, origin) ==
    IF origin.net = "response" THEN close_session(s) ELSE s

\* the finally clause of PageParserService.parse_chart_page: whatever the
\* origin did, the session is closed before the call returns
SessionAtExit(s, origin) == close_session(s)

\* variant: a throttled call restarts the window
CooldownAfterThrottleSliding(cooldown, cid, current_time) ==
    Record(cooldown, cid, current_time)

\* the ledger after the cooldown branch of the chart route: the branch
\* returns without a write
CooldownAfterThrottle(cooldown, cid, current_time) == cooldown

\* variant: the ranking route records its successful fetches as well
RouteRecordsAny(route, res) == RecordsAfter(res)

\* the route whose handler writes the ledger after the service returned res:
\* the chart route only; the ranking route has no write
RouteRecords(route, res) == route = "chart" /\ RecordsAfter(res)

\* GET /page-parser/chart/{cid}, up to the response of a call in cooldown or
\* to the GET that PageParserService.parse_chart_page sends
BeginChart(r, cid) ==
    /\ pc[r] = "idle"
    /\ AllSent
    /\ LET current_time == now
           last_update == IF cid \in DOMAIN crawler_cooldown
                          THEN Some(crawler_cooldown[cid]) ELSE None
           call == [route |-> "chart", cid |-> cid, current_time |-> current_time,
                    origin |-> "none"]
       IN /\ req' = [req EXCEPT ![r] = call]
          /\ IF InCooldown(crawler_cooldown, cid, current_time)
             THEN /\ resp' = [resp EXCEPT ![r] =
                                ThrottledResponse(cid, current_time, last_update[1])]
                  /\ pc' = [pc EXCEPT ![r] = "done"]
                  /\ crawler_cooldown' =
                        CooldownAfterThrottle(crawler_cooldown, cid, current_time)
                  /\ UNCHANGED session
             ELSE /\ session' = [session EXCEPT ![r] = get_session(@)]
                  /\ pc' = [pc EXCEPT ![r] = "fetching"]
                  /\ UNCHANGED <<resp, crawler_cooldown>>
    /\ UNCHANGED <<now, mapping_file, MOD_MAPPING, page, result>>

\* GET /page-parser/chart/{cid}/ranking, up to the GET the service sends
BeginRanking(r, cid) ==
    /\ pc[r] = "idle"
    /\ AllSent
    /\ req' = [req EXCEPT ![r] =
                [route |-> "ranking", cid |-> cid, current_time |-> now,
                 origin |-> "none"]]
    /\ session' = [session EXCEPT ![r] = get_session(@)]
    /\ pc' = [pc EXCEPT ![r] = "fetching"]
    /\ UNCHANGED <<now, crawler_cooldown, mapping_file, MOD_MAPPING, resp,
                   page, result>>

\* the origin answers (or the transport fails): the service returns, closes its
\* session, and the route builds its response
CompleteFetch(r, origin) ==
    /\ pc[r] = "fetching"
    /\ AllSent
    /\ LET cid == req[r].cid
           res == PageParserService_parse_chart_page(MOD_MAPPING, cid, origin, now)
       IN /\ session' = [session EXCEPT ![r] = SessionAtExit(@, origin)]
          /\ req' = [req EXCEPT ![r].origin = OriginLabel(origin)]
          /\ pc' = [pc EXCEPT ![r] = "done"]
          /\ resp' = [resp EXCEPT ![r] =
                        IF res.is_error THEN ErrorResponse(res)
                        ELSE IF req[r].route = "chart"
                        THEN SuccessResponse(res, req[r].current_time)
                        ELSE SuccessResponse(RankingOnly(res), now)]
          /\ crawler_cooldown' =
                IF RouteRecords(req[r].route, res)
                THEN Record(crawler_cooldown, cid, req[r].current_time)
                ELSE crawler_cooldown
    /\ UNCHANGED <<now, mapping_file, MOD_MAPPING, page, result>>

\* the response has gone to the client; the slot takes the next request
Deliver(r) ==
    /\ pc[r] = "done"
    /\ pc' = [pc EXCEPT ![r] = "idle"]
    /\ req' = [req EXCEPT ![r] = NoReq]
    /\ resp' = [resp EXCEPT ![r] = NoResp]
    /\ UNCHANGED <<now, crawler_cooldown, mapping_file, MOD_MAPPING, session,
                   page, result>>

RouteInit ==
    /\ now = 0
    /\ crawler_cooldown = <<>>
    /\ pc = [r \in Reqs |-> "idle"]
    /\ req = [r \in Reqs |-> NoReq]
    /\ resp = [r \in Reqs |-> NoResp]
    /\ session = [r \in Reqs |-> "none"]
    /\ lastCall = None

Init ==
    /\ RouteInit
    /\ mapping_file = FileAbsent
    /\ MOD_MAPPING = LoadModMapping(mapping_file)
    /\ page = EmptyBody
    /\ result = None

Next ==
    \/ Tick /\ UNCHANGED lastCall
    \/ \E r \in Reqs, cid \in Cids : BeginChart(r, cid) /\ UNCHANGED lastCall
    \/ \E r \in Reqs, cid \in Cids : BeginRanking(r, cid) /\ UNCHANGED lastCall
    \/ \E r \in Reqs, origin \in Origins : CompleteFetch(r, origin) /\ UNCHANGED lastCall
    \/ \E r \in Reqs : Deliver(r) /\ UNCHANGED lastCall

Spec == Init /\ [][Next]_vars

\* the calls of one client, made one after the other: a call begins only when
\* no other call is waiting for the origin
NoFetchPending == \A q \in Reqs : pc[q] # "fetching"

\* history: when the step finishes a chart call on slot r, that call is the
\* last finished one
LogCall(r) ==
    lastCall' =
        IF pc'[r] = "done" /\ req'[r].route = "chart"
        THEN Some([cid |-> req'[r].cid, start |-> req'[r].current_time,
                   reached |-> req'[r].origin \in {"page", "bad_page", "404", "other_status"},
                   success |-> resp'[r].success])
        ELSE lastCall

NextSeq ==
    \/ Tick /\ UNCHANGED lastCall
    \/ \E r \in Reqs, cid \in Cids : NoFetchPending /\ BeginChart(r, cid) /\ LogCall(r)
    \/ \E r \in Reqs, cid \in Cids :
            NoFetchPending /\ BeginRanking(r, cid) /\ UNCHANGED lastCall
    \/ \E r \in Reqs, origin \in Origins : CompleteFetch(r, origin) /\ LogCall(r)
    \/ \E r \in Reqs : Deliver(r) /\ UNCHANGED lastCall

SpecSeq == Init /\ [][NextSeq]_vars

(***************************************************************************)
(* Decoder runs                                                            *)
(***************************************************************************)
\* PageParserService.parse_chart_page on a 200 response whose body is page
ParsePage ==
    /\ result = None
    /\ result' = Some(PageParserService_parse_chart_page(
                        MOD_MAPPING, ParseCid, Origin("response", 200, TRUE, page), now))
    /\ UNCHANGED <<routeVars, mapping_file, MOD_MAPPING, page>>

InitParse ==
    /\ RouteInit
    /\ mapping_file \in MappingFiles
    /\ MOD_MAPPING = LoadModMapping(mapping_file)
    /\ page \in ParsePages
    /\ result = None

NextParse == ParsePage

SpecParse == InitParse /\ [][NextParse]_vars

(***************************************************************************)
(* Claims about the routes                                                 *)
(***************************************************************************)
\* slot r takes a call of GET /page-parser/chart/{cid} in this step
ChartBegins(r, cid) ==
    /\ pc[r] = "idle"
    /\ pc'[r] # "idle"
    /\ req'[r].route = "chart"
    /\ req'[r].cid = cid

\* in this step the service of a chart call on slot r returns
ChartCompletes(r) ==
    /\ pc[r] = "fetching"
    /\ pc'[r] = "done"
    /\ req[r].route = "chart"

\* slot r holds the finished response of a chart call
ChartDone(r) == pc[r] = "done" /\ req[r].route = "chart"

\* C1 as the spec states it: when the previous call for the same chart id
\* received a response from the origin less than 5 minutes ago, whatever that
\* response was, the call is answered with the cooldown message and no session
\* is opened; a call 5 minutes or more after the recorded time opens a session
\* and sends the GET.
C1_AnyReachedCallThrottlesNext ==
    [][\A r \in Reqs, cid \in Cids :
        ChartBegins(r, cid) =>
          /\ ( /\ lastCall # None
               /\ lastCall[1].cid = cid
               /\ lastCall[1].reached
               /\ now - lastCall[1].start < CooldownMinutes )
             => ( pc'[r] = "done" /\ resp'[r].kind = "throttled" /\ session'[r] = "none" )
          /\ ( cid \in DOMAIN crawler_cooldown
               /\ now - crawler_cooldown[cid] >= CooldownMinutes )
             => ( pc'[r] = "fetching" /\ session'[r] = "open" )
      ]_vars

\* C1, amended: when the previous call for the same chart id returned success
\* less than 5 minutes ago, the call is answered with the cooldown message and
\* no session is opened; a call 5 minutes or more after the recorded time opens
\* a session and sends the GET.
C1_SuccessfulCallThrottlesNext ==
    [][\A r \in Reqs, cid \in Cids :
        ChartBegins(r, cid) =>
          /\ ( /\ lastCall # None
               /\ lastCall[1].cid = cid
               /\ lastCall[1].success
               /\ now - lastCall[1].start < CooldownMinutes )
             => ( pc'[r] = "done" /\ resp'[r].kind = "throttled" /\ session'[r] = "none" )
          /\ ( cid \in DOMAIN crawler_cooldown
               /\ now - crawler_cooldown[cid] >= CooldownMinutes )
             => ( pc'[r] = "fetching" /\ session'[r] = "open" )
      ]_vars

\* a call answered with the cooldown message in the last minute of the window
C1_Witness ==
    \E r \in Reqs :
        /\ ChartDone(r)
        /\ resp[r].kind = "throttled"
        /\ session[r] = "none"
        /\ req[r].current_time - crawler_cooldown[req[r].cid] = CooldownMinutes - 1

ReachedLabels == {"page", "bad_page", "404", "other_status"}

\* C2 as the spec states it: after a chart call in which the origin returned
\* an HTTP response, crawler_cooldown[cid] is the time of that call, and a 404
\* of the origin gives the not-found detail.
C2_LedgerUpdatedOnAnyResponse ==
    \A r \in Reqs :
        (ChartDone(r) /\ req[r].origin \in ReachedLabels) =>
            /\ req[r].cid \in DOMAIN crawler_cooldown
            /\ crawler_cooldown[req[r].cid] = req[r].current_time
            /\ req[r].origin = "404" => resp[r].error = <<"chart_not_found", req[r].cid, 0>>

\* C2, amended: a chart call in which the origin returned 200 and the
\* extraction completed sets crawler_cooldown[cid] to the time taken at the
\* start of the call and leaves the other entries alone; a call with any other
\* outcome leaves the whole dict unchanged, and a 404 of the origin gives the
\* not-found detail.
C2_LedgerUpdatedOnSuccessOnly ==
    [][\A r \in Reqs :
        ChartCompletes(r) =>
          /\ req'[r].origin = "page" =>
                /\ DOMAIN crawler_cooldown' = DOMAIN crawler_cooldown \cup {req[r].cid}
                /\ crawler_cooldown'[req[r].cid] = req[r].current_time
                /\ \A c \in DOMAIN crawler_cooldown :
                      c # req[r].cid => crawler_cooldown'[c] = crawler_cooldown[c]
          /\ req'[r].origin # "page" => crawler_cooldown' = crawler_cooldown
          /\ req'[r].origin = "404" =>
                resp'[r].error = <<"chart_not_found", req[r].cid, 0>>
      ]_vars

\* a 404 of the origin has been answered and the chart id has no entry
C2_Witness ==
    \E r \in Reqs :
        /\ ChartDone(r)
        /\ req[r].origin = "404"
        /\ resp[r].error = <<"chart_not_found", req[r].cid, 0>>
        /\ req[r].cid \notin DOMAIN crawler_cooldown

\* the chart call on slot r has sent its GET
SentGet(r) ==
    /\ req[r].route = "chart"
    /\ \/ pc[r] = "fetching"
       \/ pc[r] = "done" /\ req[r].origin # "none"

\* C3: two calls of the chart route for the same chart id that both sent a GET
\* to the origin began at least 5 minutes apart; in particular no call sends a
\* GET while another call for the same chart id is waiting for the origin.
C3_OneGetPerWindow ==
    \A r \in Reqs, q \in Reqs :
        (r # q /\ SentGet(r) /\ SentGet(q) /\ req[r].cid = req[q].cid) =>
            \/ req[r].current_time - req[q].current_time >= CooldownMinutes
            \/ req[q].current_time - req[r].current_time >= CooldownMinutes

\* C4: a 404 of the origin is answered with HTTP 404 and the not-found detail;
\* every other failure is answered with HTTP 200 and a body with success=false
\* and the error detail.
C4_OnlyNotFoundIs404 ==
    \A r \in Reqs :
        ChartDone(r) =>
            /\ req[r].origin = "404" =>
                  /\ resp[r].http = 404
                  /\ resp[r].error = <<"chart_not_found", req[r].cid, 0>>
            /\ req[r].origin \in {"bad_page", "other_status", "client_error", "timeout"} =>
                  /\ resp[r].http = 200
                  /\ ~resp[r].success
                  /\ resp[r].error # NoError

\* C8 as the spec states it: the cooldown message states the minutes left,
\* 5 minus the minutes since crawler_cooldown[cid].
C8_MessageStatesRemainingWait ==
    \A r \in Reqs :
        (ChartDone(r) /\ resp[r].kind = "throttled") =>
            resp[r].error[3] =
                CooldownMinutes - (req[r].current_time - crawler_cooldown[req[r].cid])

\* C8, amended: a throttled call is answered with success=false and a message
\* that names the chart id and the fixed 5 minutes, whatever time has passed
\* since crawler_cooldown[cid]; only the timestamp of the response is the time
\* of the call.
C8_MessageStatesFixedWindow ==
    \A r \in Reqs :
        (ChartDone(r) /\ resp[r].kind = "throttled") =>
            /\ resp[r].error = <<"recently_parsed", req[r].cid, 5>>
            /\ ~resp[r].success
            /\ resp[r].http = 200
            /\ resp[r].timestamp = req[r].current_time

\* a call throttled 2 minutes after the recorded time
C8_Witness ==
    \E r \in Reqs :
        /\ ChartDone(r)
        /\ resp[r].kind = "throttled"
        /\ req[r].current_time - crawler_cooldown[req[r].cid] = 2

(***************************************************************************)
(* Claims about the decoders                                               *)
(***************************************************************************)
\* the service has returned the parsed page
Parsed == result # None /\ ~result[1].is_error

\* every list item of the page has its entry in the ranking
AllItemsKept == Parsed /\ page.has_list /\ Len(result[1].ranking) = Len(page.items)

HasSlash(title) == \E i \in 1..Len(title) : title[i] = "/"

\* the segment of a title attribute that fills slot k: the text between the
\* (k-1)-th and the k-th '/', empty when the attribute has fewer segments
Segment(title, k) ==
    LET cuts == {i \in 1..Len(title) : title[i] = "/"}
        before == {i \in cuts : Cardinality({j \in cuts : j < i}) = k - 2}
        after  == {i \in cuts : Cardinality({j \in cuts : j < i}) = k - 1}
        from == IF k = 1 THEN 1
                ELSE IF before = {} THEN Len(title) + 1
                ELSE (CHOOSE i \in before : TRUE) + 1
        to   == IF after = {} THEN Len(title) ELSE (CHOOSE i \in after : TRUE) - 1
    IN SubSeq(title, from, to)

\* a segment of decimal digits, and the number it writes
IsNumber(seg) == Len(seg) > 0 /\ \A i \in 1..Len(seg) : seg[i] \in DigitChars

\* the count the spec gives slot k: the segment's number, 0 when the segment is
\* missing or not a number
ClaimedCount(title, k) ==
    IF IsNumber(Segment(title, k)) THEN DecimalValue(Segment(title, k)) ELSE 0

ClaimedStats(item) ==
    IF ~item.has_title \/ ~HasSlash(item.title)
    THEN [perfect |-> 0, good |-> 0, miss |-> 0, unknown |-> 0]
    ELSE [perfect |-> ClaimedCount(item.title, 1), good |-> ClaimedCount(item.title, 2),
          miss |-> ClaimedCount(item.title, 3), unknown |-> ClaimedCount(item.title, 4)]

\* C5: every list item is in the ranking whatever its title attribute, and its
\* hit breakdown has, in each slot, the number of the slot's segment, or 0 when
\* the segment is missing or not a number (all zero without a '/').
C5_HitBreakdownTolerant ==
    (result # None /\ page.has_list) =>
        /\ AllItemsKept
        /\ \A i \in 1..Len(page.items) :
              result[1].ranking[i].hit_stats = ClaimedStats(page.items[i])

\* the <i> elements the decoder looks at: those of the item's first span of
\* class mod whose class list has a name with g_mod in it
ModIcons(item) ==
    LET mod == {i \in 1..Len(item.spans) : item.spans[i].cls = "mod"}
    IN IF mod = {} THEN <<>>
       ELSE SelectSeq(item.spans[CHOOSE i \in mod : \A j \in mod : i <= j].icons,
                      LAMBDA icon : \E k \in 1..Len(icon) : MatchesGMod(icon[k]))

\* the name the placeholder mapping gives a code
PlaceholderName(code) ==
    IF Len(code) = 1 /\ code[1][1] = "g_mod_" /\ code[1][2] \in 0..19
    THEN <<Tok("mod_", code[1][2])>>
    ELSE code

\* C6 as the spec states it: without a readable mapping file every modifier
\* name of an entry is the raw code of its icon.
C6_IdentityWithoutFile ==
    (AllItemsKept /\ ~mapping_file.readable) =>
        \A i \in 1..Len(page.items) :
            result[1].ranking[i].mods = ModIcons(page.items[i])

\* C6, amended: without a readable mapping file the page is still parsed and
\* the mapping in force is the placeholder one: the code g_mod_<i>, i in 0..19,
\* gives the name mod_<i>, and every other code gives itself.
C6_PlaceholderWithoutFile ==
    (result # None /\ ~mapping_file.readable) =>
        /\ Parsed
        /\ AllItemsKept =>
              \A i \in 1..Len(page.items) :
                  /\ Len(result[1].ranking[i].mods) = Len(ModIcons(page.items[i]))
                  /\ \A k \in 1..Len(ModIcons(page.items[i])) :
                        result[1].ranking[i].mods[k] =
                            PlaceholderName(ModIcons(page.items[i])[k])

\* without a mapping file, an item with the icons g_mod_19 and g_mod_20 has
\* been decoded
C6_Witness ==
    /\ AllItemsKept
    /\ ~mapping_file.readable
    /\ Len(page.items) = 1
    /\ ModIcons(page.items[1]) = << <<GMod(19)>>, <<GMod(20)>> >>
    /\ result[1].ranking[1].mods = << <<ModName(19)>>, <<GMod(20)>> >>

\* C7: the modifier sequence of an entry has one element per modifier icon the
\* decoder finds in the item, in document order: the mapped name when the
\* icon's code is a key of the mapping, the code itself otherwise; an item
\* without a modifier span gives the empty sequence.
C7_OneNamePerIcon ==
    AllItemsKept =>
        \A i \in 1..Len(page.items) :
            LET found == ModIcons(page.items[i])
                mods == result[1].ranking[i].mods
            IN /\ Len(mods) = Len(found)
               /\ \A k \in 1..Len(found) :
                     mods[k] = IF found[k] \in DOMAIN MOD_MAPPING
                               THEN MOD_MAPPING[found[k]] ELSE found[k]
               /\ (\A n \in 1..Len(page.items[i].spans) :
                      page.items[i].spans[n].cls # "mod") => mods = <<>>

\* with the mapping of the file, an item whose second span is the modifier
\* span, with a mapped and an unmapped icon in it, has been decoded
C7_Witness ==
    /\ AllItemsKept
    /\ mapping_file.readable
    /\ Len(page.items) = 1
    /\ Len(page.items[1].spans) = 2
    /\ page.items[1].spans[1].cls = "time"
    /\ ModIcons(page.items[1]) = << <<GMod(19)>>, <<GMod(0)>> >>
    /\ result[1].ranking[1].mods = << <<GMod(19)>>, <<Tok("Luck", 0)>> >>

\* C9: the count of a parsed page is the length of its ranking, and a page
\* without a ranking list is parsed, with an empty ranking and count 0.
C9_CountIsLength ==
    result # None =>
        /\ Parsed => result[1].total_rankings = Len(result[1].ranking)
        /\ ~page.has_list =>
              /\ Parsed
              /\ result[1].ranking = <<>>
              /\ result[1].total_rankings = 0

\* a page of three list items, one of them left out, has been parsed
C9_Witness ==
    /\ Parsed
    /\ page.has_list
    /\ Len(page.items) = 3
    /\ result[1].total_rankings = 2
    /\ Len(result[1].ranking) = 2

\* C10: the four hit counts of every entry of a ranking are 0 or more.
C10_HitCountsNonNegative ==
    Parsed =>
        \A i \in 1..Len(result[1].ranking) :
            /\ result[1].ranking[i].hit_stats.perfect >= 0
            /\ result[1].ranking[i].hit_stats.good >= 0
            /\ result[1].ranking[i].hit_stats.miss >= 0
            /\ result[1].ranking[i].hit_stats.unknown >= 0

\* int() of a segment raises: the segment is not an optional minus sign
\* followed by digits
BadSegment(seg) ==
    \/ Len(seg) = 0
    \/ seg[1] = "-" /\ ~IsNumber(SubSeq(seg, 2, Len(seg)))
    \/ seg[1] # "-" /\ ~IsNumber(seg)

\* the assembly of the item raises: its title attribute has a '/' and one of
\* its first four segments is neither empty nor an integer
AssemblyRaises(item) ==
    /\ item.has_title
    /\ HasSlash(item.title)
    /\ \E k \in 1..4 : Segment(item.title, k) # <<>> /\ BadSegment(Segment(item.title, k))

\* the integer a segment writes, 0 for the empty segment
SignedCount(seg) ==
    IF seg = <<>> THEN 0
    ELSE IF seg[1] = "-" THEN 0 - DecimalValue(SubSeq(seg, 2, Len(seg)))
    ELSE DecimalValue(seg)

SignedStats(item) ==
    IF ~item.has_title \/ ~HasSlash(item.title)
    THEN [perfect |-> 0, good |-> 0, miss |-> 0, unknown |-> 0]
    ELSE [perfect |-> SignedCount(Segment(item.title, 1)),
          good |-> SignedCount(Segment(item.title, 2)),
          miss |-> SignedCount(Segment(item.title, 3)),
          unknown |-> SignedCount(Segment(item.title, 4))]

\* the list items whose assembly does not raise, in document order
KeptItems(pg) == SelectSeq(pg.items, LAMBDA item : ~AssemblyRaises(item))

\* C11: a page with a ranking list is parsed, never an error, and its ranking
\* has exactly one entry per list item whose assembly does not raise, in
\* document order: the entry of the i-th such item is the i-th entry.
C11_RankingIsKeptSubsequence ==
    (result # None /\ page.has_list) =>
        /\ Parsed
        /\ Len(result[1].ranking) = Len(KeptItems(page))
        /\ \A i \in 1..Len(KeptItems(page)) :
              /\ result[1].ranking[i].hit_stats = SignedStats(KeptItems(page)[i])
              /\ result[1].ranking[i].judge =
                    (IF page.judge = <<>> THEN "All" ELSE page.judge[1])

\* a page of three items whose second item raises has been parsed: the first
\* and the third item are the two entries
C11_Witness ==
    /\ Parsed
    /\ page.has_list
    /\ Len(page.items) = 3
    /\ ~AssemblyRaises(page.items[1])
    /\ AssemblyRaises(page.items[2])
    /\ ~AssemblyRaises(page.items[3])
    /\ SignedStats(page.items[1]) # SignedStats(page.items[3])
    /\ Len(result[1].ranking) = 2
    /\ result[1].ranking[1].hit_stats = SignedStats(page.items[1])
    /\ result[1].ranking[2].hit_stats = SignedStats(page.items[3])

\* C12: a service holds a session exactly while its fetch is pending: the
\* session is opened when the fetch starts, and when parse_chart_page has
\* returned, whatever the origin did (404, another status, a page, a page whose
\* extraction raised, a client error, a timeout), the service holds no session.
C12_SessionOnlyDuringFetch ==
    \A r \in Reqs :
        /\ session[r] = "open" <=> pc[r] = "fetching"
        /\ (pc[r] = "done" /\ req[r].origin # "none") => session[r] = "none"

\* a fetch that ended with a client error has returned and its session is closed
C12_Witness ==
    \E r \in Reqs :
        /\ pc[r] = "done"
        /\ req[r].origin = "client_error"
        /\ resp[r].error = <<"network_error", 0, 0>>
        /\ session[r] = "none"

\* C13: the step in which a chart call's fetch ends by a timeout, no response
\* of the origin received, leaves crawler_cooldown as it was, for every chart
\* id; so whether the next call is throttled is what it was before the attempt.
C13_TimeoutLeavesLedger ==
    [][\A r \in Reqs :
          (ChartCompletes(r) /\ req'[r].origin = "timeout") =>
              /\ crawler_cooldown' = crawler_cooldown
              /\ \A c \in Cids, t \in 0..MaxTime :
                    InCooldown(crawler_cooldown', c, t) <=> InCooldown(crawler_cooldown, c, t)]_vars

\* a chart call ended by a timeout, and its chart id has no entry in the
\* ledger: the next call for it fetches
C13_Witness ==
    \E r \in Reqs :
        /\ ChartDone(r)
        /\ req[r].origin = "timeout"
        /\ resp[r].kind = "http_exception"
        /\ req[r].cid \notin DOMAIN crawler_cooldown
        /\ ~InCooldown(crawler_cooldown, req[r].cid, now)

\* C14: the time the ledger holds for a chart id never decreases: no step
\* removes an entry or replaces it by an earlier time.
C14_LedgerNeverDecreases ==
    [][\A c \in DOMAIN crawler_cooldown :
          /\ c \in DOMAIN crawler_cooldown'
          /\ crawler_cooldown'[c] >= crawler_cooldown[c]]_vars

\* in this step a call of the ranking route for chart cid arrives on slot r
RankingBegins(r, cid) ==
    /\ pc[r] = "idle"
    /\ pc'[r] # "idle"
    /\ req'[r].route = "ranking"
    /\ req'[r].cid = cid

\* in this step the service of a ranking call on slot r returns
RankingCompletes(r) ==
    /\ pc[r] = "fetching"
    /\ pc'[r] = "done"
    /\ req[r].route = "ranking"

\* C15: a call of the ranking route always opens a session and sends the GET,
\* whatever the ledger holds for its chart id; it is never answered with the
\* cooldown message; and neither its arrival nor its completion, whatever the
\* outcome, changes the ledger for any chart id.
C15_RankingIgnoresLedger ==
    [][\A r \in Reqs :
          /\ \A cid \in Cids :
                RankingBegins(r, cid) =>
                    /\ pc'[r] = "fetching"
                    /\ session'[r] = "open"
                    /\ crawler_cooldown' = crawler_cooldown
          /\ RankingCompletes(r) =>
                    /\ resp'[r].kind \in {"success", "http_exception"}
                    /\ req'[r].origin # "none"
                    /\ crawler_cooldown' = crawler_cooldown]_vars

\* a ranking call is waiting for the origin although the ledger holds a time
\* less than 5 minutes before its arrival for its chart id
C15_Witness ==
    \E r \in Reqs :
        /\ pc[r] = "fetching"
        /\ req[r].route = "ranking"
        /\ session[r] = "open"
        /\ InCooldown(crawler_cooldown, req[r].cid, req[r].current_time)

\* C16: a chart call answered with the cooldown message leaves the ledger as
\* it was, and a chart call made 5 minutes or more after the time the ledger
\* holds for its chart id is not throttled: it opens a session and fetches.
C16_ThrottledCallsKeepWindow ==
    [][\A r \in Reqs, cid \in Cids :
          ChartBegins(r, cid) =>
              /\ resp'[r].kind = "throttled" => crawler_cooldown' = crawler_cooldown
              /\ (/\ cid \in DOMAIN crawler_cooldown
                  /\ now - crawler_cooldown[cid] >= CooldownMinutes) =>
                        /\ pc'[r] = "fetching"
                        /\ resp'[r].kind # "throttled"]_vars

\* a chart call is fetching 5 minutes or more after the recorded time, and the
\* last finished call for the same chart id was a throttled one inside the
\* window
C16_Witness ==
    \E r \in Reqs :
        /\ pc[r] = "fetching"
        /\ req[r].route = "chart"
        /\ req[r].cid \in DOMAIN crawler_cooldown
        /\ req[r].current_time >= crawler_cooldown[req[r].cid] + CooldownMinutes
        /\ lastCall # None
        /\ lastCall[1].cid = req[r].cid
        /\ ~lastCall[1].success
        /\ ~lastCall[1].reached
        /\ lastCall[1].start > crawler_cooldown[req[r].cid]
        /\ lastCall[1].start < crawler_cooldown[req[r].cid] + CooldownMinutes

====
